---- MODULE Spec2Model ----
(***************************************************************************)
(* The repository sync of agentspack (internal/syncer/syncer.go): the      *)
(* manifest loader, Syncer.Run, Syncer.syncRepo and the overlay copy.      *)
(*                                                                         *)
(* Text is modelled at two grains.  A manifest line and a repository name  *)
(* are sequences of one-character strings, so that TrimSpace, HasPrefix    *)
(* and Split are computed character by character.  A result message and a  *)
(* printed line are sequences of words; the words tested by                *)
(* strings.Contains in Run ("no changes", "merged", "initialized") are     *)
(* single words, and a branch name is a single word.                       *)
(***************************************************************************)
EXTENDS Integers, Sequences, FiniteSets, TLC

VARIABLES
    fileOpens,     \* os.Open(SyncReposFile) succeeds
    fileLines,     \* the lines of sync_repos.md, as bufio.Scanner yields them
    scanFails,     \* scanner.Err() is non-nil after the scan loop
    config,        \* wizard.Config: SyncMode, TargetBranch
    outputDir,     \* the generated output tree (s.outputDir)
    remote,        \* the hosted repositories, by name
    remote0,       \* the hosted repositories as they were before the first run
    clock,         \* time.Now(), in seconds
    runNo,         \* which invocation of Run this is
    prevResults,   \* the results of the invocation before this one
    pc,            \* the position of Run / syncRepo
    repos,         \* s.repos
    branchName,    \* Run's branchName
    idx,           \* the index of the loop of Run
    results,       \* Run's results
    successCount,  \* Run's successCount
    skipCount,     \* Run's skipCount
    failCount,     \* Run's failCount
    printed,       \* the per-repository lines Run has printed
    runErr,        \* the value Run returns once pc = "done"
    tempDirs,      \* the temporary directories that exist, by loop index
    wc,            \* the working copy of the repository being synced
    isEmptyRepo,   \* syncRepo's isEmptyRepo
    calls,         \* every external call made so far, in order
    loaded,        \* the result of the loader under the loader specification
    started        \* per invocation of Run that reached the loop: the second
                   \* at which branchName was computed, and the name

vars == <<fileOpens, fileLines, scanFails, config, outputDir, remote, remote0, clock,
          runNo, prevResults, pc, repos, branchName, idx, results,
          successCount, skipCount, failCount, printed, runErr, tempDirs, wc,
          isEmptyRepo, calls, loaded, started>>

(***************************************************************************)
(* Bounds.                                                                 *)
(***************************************************************************)
MaxLines == 2      \* lines of a manifest given to Run
MaxLoadLines == 3  \* lines of a manifest given to the loader alone
MaxRuns == 2       \* successive invocations of Run
MaxLineLen == 4
MaxClock == 2    \* characters of a line given to the loader on its own

(***************************************************************************)
(* Strings.                                                                *)
(***************************************************************************)
\* unicode.IsSpace, on the characters of the model
IsSpace(c) == c \in {" ", "\t"}

RECURSIVE TrimLeft(_)
TrimLeft(s) ==
    IF s = <<>> THEN s
    ELSE IF IsSpace(Head(s)) THEN TrimLeft(Tail(s)) ELSE s

RECURSIVE TrimRight(_)
TrimRight(s) ==
    IF s = <<>> THEN s
    ELSE IF IsSpace(s[Len(s)]) THEN TrimRight(SubSeq(s, 1, Len(s) - 1)) ELSE s

\* strings.TrimSpace
TrimSpace(s) == TrimRight(TrimLeft(s))

\* strings.HasPrefix
HasPrefix(s, p) == Len(s) >= Len(p) /\ SubSeq(s, 1, Len(p)) = p

\* strings.Contains, for a needle of one element
Contains(s, c) == \E i \in 1..Len(s) : s[i] = c

RECURSIVE SplitFrom(_, _, _, _)
SplitFrom(s, sep, cur, acc) ==
    IF s = <<>> THEN Append(acc, cur)
    ELSE IF Head(s) = sep THEN SplitFrom(Tail(s), sep, <<>>, Append(acc, cur))
    ELSE SplitFrom(Tail(s), sep, Append(cur, Head(s)), acc)

\* strings.Split, for a separator of one character
Split(s, sep) == SplitFrom(s, sep, <<>>, <<>>)

(***************************************************************************)
(* The manifest loader.                                                    *)
(***************************************************************************)
\* isValidRepoFormat, were only the owner looked at for spaces
isValidRepoFormatOwnerOnly(repo) ==
    LET parts == Split(repo, "/") IN
    IF Len(parts) # 2 THEN FALSE
    ELSE /\ Len(parts[1]) > 0
         /\ Len(parts[2]) > 0
         /\ ~Contains(parts[1], " ")

isValidRepoFormat(repo) ==
    LET parts == Split(repo, "/") IN
    IF Len(parts) # 2 THEN FALSE
    ELSE /\ Len(parts[1]) > 0
         /\ Len(parts[2]) > 0
         /\ ~Contains(parts[1], " ")
         /\ ~Contains(parts[2], " ")

\* scanLine, were a repository that is already listed skipped
scanLineDedup(acc, text) ==
    LET line == TrimSpace(text) IN
    IF line = <<>> \/ HasPrefix(line, <<"#">>) THEN acc
    ELSE IF ~isValidRepoFormat(line) THEN acc
    ELSE IF \E k \in 1..Len(acc) : acc[k] = line THEN acc
    ELSE Append(acc, line)

\* the body of the scan loop of loadRepos: the repos after one more line
scanLine(acc, text) ==
    LET line == TrimSpace(text) IN
    IF line = <<>> \/ HasPrefix(line, <<"#">>) THEN acc
    ELSE IF ~isValidRepoFormat(line) THEN acc
    ELSE Append(acc, line)

RECURSIVE scanLoop(_, _)
scanLoop(lines, acc) ==
    IF lines = <<>> THEN acc
    ELSE scanLoop(Tail(lines), scanLine(acc, Head(lines)))

\* loadRepos, were scanner.Err() not looked at
loadReposNoScanErr(opens, lines, scanErr) ==
    IF ~opens THEN [repos |-> <<>>, err |-> "open"]
    ELSE [repos |-> scanLoop(lines, <<>>), err |-> "nil"]

\* loadRepos, were a line of invalid format an error
loadReposStrict(opens, lines, scanErr) ==
    IF ~opens THEN [repos |-> <<>>, err |-> "open"]
    ELSE IF scanErr THEN [repos |-> <<>>, err |-> "read"]
    ELSE IF \E k \in 1..Len(lines) :
               /\ TrimSpace(lines[k]) # <<>>
               /\ ~HasPrefix(TrimSpace(lines[k]), <<"#">>)
               /\ ~isValidRepoFormat(TrimSpace(lines[k]))
    THEN [repos |-> <<>>, err |-> "invalid"]
    ELSE [repos |-> scanLoop(lines, <<>>), err |-> "nil"]

\* loadRepos: the repositories and the error it returns
loadRepos(opens, lines, scanErr) ==
    IF ~opens THEN [repos |-> <<>>, err |-> "open"]
    ELSE IF scanErr THEN [repos |-> <<>>, err |-> "read"]
    ELSE [repos |-> scanLoop(lines, <<>>), err |-> "nil"]

(***************************************************************************)
(* File trees.  A tree maps every path of Paths to an entry; a path is the *)
(* sequence of names below the root of the tree.                           *)
(***************************************************************************)
Paths == { <<"AGENTS.md">>, <<"README.md">>, <<"cursor">>,
           <<"cursor", "rules.md">>, <<"cursor", "sub">>,
           <<"cursor", "sub", "deep.md">> }

\* the names of Paths in the order os.ReadDir returns them (sorted by name)
NameOrder == <<"AGENTS.md", "README.md", "cursor", "deep.md", "rules.md", "sub">>

NoEntry == [kind |-> "none", data |-> "", mode |-> ""]
File(data, mode) == [kind |-> "file", data |-> data, mode |-> mode]
Dir(mode) == [kind |-> "dir", data |-> "", mode |-> mode]

EmptyTree == [p \in Paths |-> NoEntry]

Parent(p) == SubSeq(p, 1, Len(p) - 1)

\* os.ReadDir: the names of the entries of directory dir, sorted
ReadDir(tree, dir) ==
    SelectSeq(NameOrder,
              LAMBDA n : Append(dir, n) \in Paths /\ tree[Append(dir, n)].kind # "none")

\* os.MkdirAll(p, mode) in tree: [ok, tree]
RECURSIVE MkdirAll(_, _, _)
MkdirAll(tree, p, mode) ==
    IF p = <<>> THEN [ok |-> TRUE, tree |-> tree]
    ELSE IF tree[p].kind = "dir" THEN [ok |-> TRUE, tree |-> tree]
    ELSE IF tree[p].kind = "file" THEN [ok |-> FALSE, tree |-> tree]
    ELSE LET up == MkdirAll(tree, Parent(p), mode) IN
         IF ~up.ok THEN up
         ELSE [ok |-> TRUE, tree |-> [up.tree EXCEPT ![p] = Dir(mode)]]

\* os.WriteFile(p, data, mode) in tree: an existing file keeps its mode
WriteFile(tree, p, data, mode) ==
    IF tree[p].kind = "dir" THEN [ok |-> FALSE, tree |-> tree]
    ELSE IF tree[p].kind = "file"
         THEN [ok |-> TRUE, tree |-> [tree EXCEPT ![p].data = data]]
    ELSE [ok |-> TRUE, tree |-> [tree EXCEPT ![p] = File(data, mode)]]

\* copyFile, were a file that exists in dst left as it is
copyFileIfAbsent(srcTree, dstTree, p) ==
    LET up == MkdirAll(dstTree, Parent(p), "0755") IN
    IF ~up.ok THEN up
    ELSE IF up.tree[p].kind = "file" THEN up
    ELSE WriteFile(up.tree, p, srcTree[p].data, "0644")

\* copyFile(src, dst), src and dst being path p below the two roots
copyFile(srcTree, dstTree, p) ==
    LET data == srcTree[p].data
        up == MkdirAll(dstTree, Parent(p), "0755")
    IN IF ~up.ok THEN up ELSE WriteFile(up.tree, p, data, "0644")

RECURSIVE copyDir(_, _, _)
RECURSIVE copyEntries(_, _, _, _)

\* the loop of copyDir over the entries of src
copyEntries(srcTree, dstTree, dir, names) ==
    IF names = <<>> THEN [ok |-> TRUE, tree |-> dstTree]
    ELSE LET p == Append(dir, Head(names))
             one == IF srcTree[p].kind = "dir"
                    THEN copyDir(srcTree, dstTree, p)
                    ELSE copyFile(srcTree, dstTree, p)
         IN IF ~one.ok THEN one
            ELSE copyEntries(srcTree, one.tree, dir, Tail(names))

copyDir(srcTree, dstTree, dir) ==
    LET made == MkdirAll(dstTree, dir, srcTree[dir].mode) IN
    IF ~made.ok THEN made
    ELSE copyEntries(srcTree, made.tree, dir, ReadDir(srcTree, dir))

\* the loop of copyFiles over the entries of s.outputDir
RECURSIVE copyTop(_, _, _)
copyTop(srcTree, dstTree, names) ==
    IF names = <<>> THEN [ok |-> TRUE, tree |-> dstTree]
    ELSE LET p == <<Head(names)>>
             one == IF srcTree[p].kind # "dir"
                    THEN copyFile(srcTree, dstTree, p)
                    ELSE copyDir(srcTree, dstTree, p)
         IN IF ~one.ok THEN one
            ELSE copyTop(srcTree, one.tree, Tail(names))

\* copyFiles, were the entries missing from the output removed from the repository
copyFilesMirror(srcTree, repoTree) ==
    LET r == copyTop(srcTree, repoTree, ReadDir(srcTree, <<>>)) IN
    [ok |-> r.ok,
     tree |-> [p \in Paths |-> IF srcTree[p].kind = "none" THEN NoEntry ELSE r.tree[p]]]

copyFiles(srcTree, repoTree) == copyTop(srcTree, repoTree, ReadDir(srcTree, <<>>))

\* copyFilesOn, were the source and the destination paths taken for each other
copyFilesOnSwapped(out, repoDir) ==
    LET r == copyFiles(repoDir, out) IN
    [ok |-> r.ok, outputDir |-> r.tree, repoDir |-> repoDir]

\* s.copyFiles(repoDir) on the two directories: every path read is joined to
\* s.outputDir, every path written is joined to repoDir
copyFilesOn(out, repoDir) ==
    LET r == copyFiles(out, repoDir) IN
    [ok |-> r.ok, outputDir |-> out, repoDir |-> r.tree]

(***************************************************************************)
(* The inputs of a run.                                                    *)
(***************************************************************************)
LineAB == <<"a", "/", "b">>
LineCD == <<"c", "/", "d">>
LineComment == <<"#", " ", "x">>
LineBlank == <<>>
LineMalformed == <<"m">>

\* the lines a manifest given to Run is made of
RunLines == {LineAB, LineCD, LineMalformed}

\* the repositories a manifest of RunLines can name
RepoNames == {TrimSpace(l) : l \in {x \in RunLines : scanLine(<<>>, x) # <<>>}}

SeqsUpTo(S, n) == UNION {[1..k -> S] : k \in 0..n}

SyncModePR == "pr"
SyncModeMerge == "merge"
DefaultTargetBranch == "main"

\* the values of Config.SyncMode: the two the wizard offers and the zero value
SyncModes == {SyncModePR, SyncModeMerge, ""}

\* the generated output: a base file and a provider directory
OutputTree ==
    [EmptyTree EXCEPT ![<<"AGENTS.md">>] = File("new", "0644"),
                      ![<<"cursor">>] = Dir("0755"),
                      ![<<"cursor", "rules.md">>] = File("new", "0644")]

\* a repository with earlier content
OldTree ==
    [EmptyTree EXCEPT ![<<"AGENTS.md">>] = File("old", "0644"),
                      ![<<"README.md">>] = File("readme", "0644")]

Remote(empty, head) == [empty |-> empty, head |-> head, branches |-> {}, prs |-> {}]

\* a hosted repository at the start: without commits, with earlier content, or
\* already holding the generated output
RemoteStates(out) ==
    { Remote(TRUE, EmptyTree), Remote(FALSE, OldTree),
      Remote(FALSE, copyFiles(out, OldTree).tree) }

\* time.Now().Format("20060102-150405") at second t
TimeStamps == <<"20260101-000000", "20260101-000001", "20260101-000002",
                "20260101-000003", "20260101-000004", "20260101-000005",
                "20260101-000006", "20260101-000007">>

BranchNameAt(t) == <<"agentspack/update-", TimeStamps[t + 1]>>

NoWC == [exists |-> FALSE, empty |-> FALSE, head |-> EmptyTree,
         tree |-> EmptyTree, branch |-> <<>>]

NotLoaded == [repos |-> <<>>, err |-> "none"]

NilErr == [err |-> "nil", n |-> 0, cause |-> ""]

(***************************************************************************)
(* Results, and what Run does with one.                                    *)
(***************************************************************************)
ErrText == "err"
URL == <<"https://github.com/pull">>

\* Failed, were the error of the stage left out of the message
FailedWithoutError(repo, stage) ==
    [Repo |-> repo, Success |-> FALSE, Message |-> <<stage>>, PRURL |-> <<>>]

Failed(repo, stage) ==
    [Repo |-> repo, Success |-> FALSE, Message |-> <<stage, ErrText>>, PRURL |-> <<>>]

\* Succeeded, were a URL put into every successful result
SucceededWithURL(repo, message, url) ==
    [Repo |-> repo, Success |-> TRUE, Message |-> message, PRURL |-> URL]

Succeeded(repo, message, url) ==
    [Repo |-> repo, Success |-> TRUE, Message |-> message, PRURL |-> url]

Skipped == [line |-> <<"skipped (no changes)">>, count |-> "skip"]

\* Tally, were a repository without changes counted as failed
TallySkipFails(result) ==
    IF result.Success
    THEN IF result.PRURL # <<>>
         THEN [line |-> <<"PR created:">> \o result.PRURL, count |-> "success"]
         ELSE IF Contains(result.Message, "no changes")
         THEN [line |-> <<"skipped (no changes)">>, count |-> "fail"]
         ELSE [line |-> result.Message, count |-> "success"]
    ELSE [line |-> <<"failed:">> \o result.Message, count |-> "fail"]

\* Tally, were a repository without changes counted nowhere
TallySkipUncounted(result) ==
    IF result.Success
    THEN IF result.PRURL # <<>>
         THEN [line |-> <<"PR created:">> \o result.PRURL, count |-> "success"]
         ELSE IF Contains(result.Message, "no changes")
         THEN [line |-> <<"skipped (no changes)">>, count |-> "none"]
         ELSE [line |-> result.Message, count |-> "success"]
    ELSE [line |-> <<"failed:">> \o result.Message, count |-> "fail"]

\* the branches of Run on a result: the line printed and the counter advanced
Tally(result) ==
    IF result.Success
    THEN IF result.PRURL # <<>>
         THEN [line |-> <<"PR created:">> \o result.PRURL, count |-> "success"]
         ELSE IF Contains(result.Message, "no changes")
         THEN Skipped
         ELSE IF Contains(result.Message, "merged")
         THEN [line |-> <<"merged to", config.TargetBranch>>, count |-> "success"]
         ELSE IF Contains(result.Message, "initialized")
         THEN [line |-> result.Message, count |-> "success"]
         ELSE [line |-> result.Message, count |-> "success"]
    ELSE [line |-> <<"failed:">> \o result.Message, count |-> "fail"]

\* what Run returns after the loop
RunReturn(fails) ==
    IF fails > 0
    THEN [err |-> "repositories failed to sync", n |-> fails, cause |-> ""]
    ELSE NilErr

\* LoopEnds, were the loop left at the first repository that fails
LoopEndsOnFailure(result, i, n) == i >= n \/ ~result.Success

\* the loop of Run goes on to the next repository, whatever the result was
LoopEnds(result, i, n) == i >= n

\* Removed, were the directory removed at the end of syncRepo and not deferred
RemovedAtEnd(dirs, i, cleanup, result) ==
    IF cleanup /\ result.Success /\ result.Message # <<"no changes">>
    THEN dirs \ {i} ELSE dirs

\* Removed, were the directories removed by nobody
RemovedNever(dirs, i, cleanup, result) == dirs

\* defer os.RemoveAll(tempDir): the temporary directories left when syncRepo
\* returns result, the defer being registered (cleanup) once MkdirTemp succeeded
Removed(dirs, i, cleanup, result) == IF cleanup THEN dirs \ {i} ELSE dirs

Call(op, ok, val) == [run |-> runNo, i |-> idx, op |-> op, ok |-> ok, val |-> val]

\* syncRepo returns result to Run, which appends, prints and counts it and
\* moves on; cleanup is the deferred os.RemoveAll(tempDir)
Return(result, cleanup) ==
    LET t == Tally(result) IN
    /\ results' = Append(results, result)
    /\ printed' = Append(printed, t.line)
    /\ successCount' = IF t.count = "success" THEN successCount + 1 ELSE successCount
    /\ skipCount' = IF t.count = "skip" THEN skipCount + 1 ELSE skipCount
    /\ failCount' = IF t.count = "fail" THEN failCount + 1 ELSE failCount
    /\ tempDirs' = Removed(tempDirs, idx, cleanup, result)
    /\ wc' = NoWC
    /\ isEmptyRepo' = FALSE
    /\ IF LoopEnds(result, idx, Len(repos))
       THEN /\ pc' = "done"
            /\ idx' = idx
            /\ runErr' = RunReturn(failCount')
       ELSE /\ pc' = "MkdirTemp"
            /\ idx' = idx + 1
            /\ runErr' = runErr

inputs == <<fileOpens, fileLines, scanFails, config, outputDir>>
history == <<remote0, clock, runNo, prevResults, loaded, started>>
loopVars == <<repos, branchName, idx, results, successCount, skipCount,
              failCount, printed>>

(***************************************************************************)
(* The version-control and hosting calls, as they act on a working copy    *)
(* and on the hosted repository.                                           *)
(***************************************************************************)
\* CloneRepo(repo, repoDir): the working copy holds the repository's head
CloneRepo(rem) ==
    [exists |-> TRUE, empty |-> rem.empty, head |-> rem.head, tree |-> rem.head,
     branch |-> <<>>]

\* IsEmptyRepo(repoDir): the clone has no commit
IsEmptyRepo(w) == w.empty

\* CreateBranch(repoDir, branchName, targetBranch): a repository without
\* commits has no base to branch from and is started on the target branch
CreateBranch(w, branch, target) ==
    [w EXCEPT !.branch = IF w.empty THEN <<target>> ELSE branch]

\* HasChanges(repoDir): some file differs from the clone's head; a repository
\* without commits always has changes
HasChanges(w) ==
    \/ w.empty
    \/ \E p \in Paths :
          /\ "file" \in {w.tree[p].kind, w.head[p].kind}
          /\ <<w.tree[p].kind, w.tree[p].data>> # <<w.head[p].kind, w.head[p].data>>

\* CommitAndPush(repoDir, msg): the branch of the working copy reaches the
\* remote; in a repository without commits it becomes the head
CommitAndPush(rem, w) ==
    [rem EXCEPT !.empty = FALSE,
                !.head = IF w.empty THEN w.tree ELSE @,
                !.branches = @ \cup {w.branch}]

\* CreatePR(repo, branch, target): a review request comparing the branch
\* (head) against the target (base) is open
CreatePR(rem, args) == [rem EXCEPT !.prs = @ \cup {args}]

\* MergeBranch(repoDir, branch, target): the target branch holds the commit
MergeBranch(rem, w) == [rem EXCEPT !.head = w.tree]

(***************************************************************************)
(* Run, up to the loop.                                                    *)
(***************************************************************************)
\* the state before Run, the target branch being one of branches
InitWith(branches) ==
    /\ fileOpens \in BOOLEAN
    /\ fileLines \in SeqsUpTo(RunLines, MaxLines)
    /\ scanFails \in BOOLEAN
    /\ config \in [SyncMode : SyncModes, TargetBranch : branches]
    /\ outputDir = OutputTree
    /\ remote \in [RepoNames -> RemoteStates(OutputTree)]
    /\ remote0 = remote
    /\ clock = 0
    /\ runNo = 1
    /\ prevResults = <<>>
    /\ pc = "CheckGHInstalled"
    /\ repos = <<>>
    /\ branchName = <<>>
    /\ idx = 0
    /\ results = <<>>
    /\ successCount = 0
    /\ skipCount = 0
    /\ failCount = 0
    /\ printed = <<>>
    /\ runErr = NilErr
    /\ tempDirs = {}
    /\ wc = NoWC
    /\ isEmptyRepo = FALSE
    /\ calls = <<>>
    /\ loaded = NotLoaded
    /\ started = <<>>

\* the wizard's default: the target branch is "main"
Init == InitWith({DefaultTargetBranch})

\* AfterCheck, were the error of a check dropped
AfterCheckIgnored(ok, next) == next

\* Run returns at once when a prerequisite check fails
AfterCheck(ok, next) == IF ok THEN next ELSE "done"

CheckGHInstalled ==
    /\ pc = "CheckGHInstalled"
    /\ \E ok \in BOOLEAN :
          /\ calls' = Append(calls, Call("CheckGHInstalled", ok, ok))
          /\ pc' = AfterCheck(ok, "CheckGHAuth")
          /\ IF ok
             THEN runErr' = runErr
             ELSE runErr' = [err |-> "gh not installed", n |-> 0, cause |-> ""]
    /\ UNCHANGED <<inputs, history, remote, loopVars, tempDirs, wc, isEmptyRepo>>

CheckGHAuth ==
    /\ pc = "CheckGHAuth"
    /\ \E ok \in BOOLEAN :
          /\ calls' = Append(calls, Call("CheckGHAuth", ok, ok))
          /\ pc' = AfterCheck(ok, "loadRepos")
          /\ IF ok
             THEN runErr' = runErr
             ELSE runErr' = [err |-> "gh not authenticated", n |-> 0, cause |-> ""]
    /\ UNCHANGED <<inputs, history, remote, loopVars, tempDirs, wc, isEmptyRepo>>

\* NoReposReturn, were a manifest without repositories an error
NoReposReturnError == [err |-> "no repositories found", n |-> 0, cause |-> ""]

\* what Run returns when the manifest lists no repository
NoReposReturn == NilErr

LoadRepos ==
    /\ pc = "loadRepos"
    /\ LET r == loadRepos(fileOpens, fileLines, scanFails) IN
       /\ calls' = Append(calls, Call("loadRepos", r.err = "nil", r.err = "nil"))
       /\ IF r.err # "nil"
          THEN /\ pc' = "done"
               /\ runErr' = [err |-> "failed to load repositories", n |-> 0,
                             cause |-> r.err]
               /\ UNCHANGED <<repos, branchName, idx, started>>
          ELSE IF Len(r.repos) = 0
          THEN /\ pc' = "done"
               /\ runErr' = NoReposReturn
               /\ UNCHANGED <<repos, branchName, idx, started>>
          ELSE /\ repos' = r.repos
               /\ branchName' = BranchNameAt(clock)
               /\ started' = Append(started, [run |-> runNo, at |-> clock,
                                              branch |-> BranchNameAt(clock)])
               /\ idx' = 1
               /\ pc' = "MkdirTemp"
               /\ runErr' = runErr
    /\ UNCHANGED <<inputs, remote0, clock, runNo, prevResults, loaded, remote, results,
                   successCount, skipCount, failCount, printed, tempDirs, wc,
                   isEmptyRepo>>

(***************************************************************************)
(* syncRepo, one external call at a time.  A stage that fails returns the  *)
(* Failed result to Run within the same step.                              *)
(***************************************************************************)
repo == repos[idx]

\* a stage succeeded and syncRepo goes on to the next one
\* Goto, were the stage tried again instead of the next one
GotoAgain(next) ==
    /\ pc' = pc
    /\ UNCHANGED <<results, successCount, skipCount, failCount, printed, idx, runErr>>

Goto(next) ==
    /\ pc' = next
    /\ UNCHANGED <<results, successCount, skipCount, failCount, printed, idx, runErr>>

\* NoChanges, were the test of hasChanges inverted
NoChangesInverted(hasChanges) == hasChanges

\* NoChanges, were the early return missing
NoChangesNever(hasChanges) == FALSE

\* Initializes, were the special case of the empty repository missing
InitializesNever(empty) == FALSE

\* syncRepo reports no changes when the diff check found none
NoChanges(hasChanges) == ~hasChanges

\* syncRepo initializes, and opens no review request, when the repository was empty
Initializes(empty) == empty

\* OpensPR, were the test for the value "merge"
OpensPRUnlessMerge(mode) == mode # SyncModeMerge

\* OpensPR, were a review request opened in every mode
OpensPRAlways(mode) == TRUE

\* syncRepo opens a review request in mode "pr" and merges in every other mode
OpensPR(mode) == mode = SyncModePR

\* PRArgs, were the branch and the target passed the other way round
PRArgsSwapped(branch, target) == [head |-> <<target>>, base |-> branch]

\* the arguments of CreatePR(repo, branchName, s.config.TargetBranch)
PRArgs(branch, target) == [head |-> branch, base |-> <<target>>]

\* InitializedMessage, were the run's branch named instead of the target branch
InitializedMessageOfBranch(target, branch) == <<"initialized", branch[2], "branch">>

\* fmt.Sprintf("initialized %s branch", s.config.TargetBranch)
InitializedMessage(target, branch) == <<"initialized", target, "branch">>

MkdirTemp ==
    /\ pc = "MkdirTemp"
    /\ \E ok \in BOOLEAN :
          /\ calls' = Append(calls, Call("MkdirTemp", ok, ok))
          /\ IF ok
             THEN /\ tempDirs' = tempDirs \cup {idx}
                  /\ Goto("CloneRepo")
                  /\ UNCHANGED <<wc, isEmptyRepo>>
             ELSE Return(Failed(repo, "failed to create temp dir:"), FALSE)
    /\ UNCHANGED <<inputs, history, remote, repos, branchName>>

Clone ==
    /\ pc = "CloneRepo"
    /\ \E ok \in BOOLEAN :
          /\ calls' = Append(calls, Call("CloneRepo", ok, ok))
          /\ IF ok
             THEN /\ wc' = CloneRepo(remote[repo])
                  /\ Goto("CreateBranch")
                  /\ UNCHANGED <<tempDirs, isEmptyRepo>>
             ELSE Return(Failed(repo, "clone failed:"), TRUE)
    /\ UNCHANGED <<inputs, history, remote, repos, branchName>>

\* syncRepoBranch, were the name made anew for every repository
syncRepoBranchFresh(name, now) == BranchNameAt(now)

\* the branchName argument of s.syncRepo(repo, branchName): the name Run
\* computed before the loop, whatever the time is now
syncRepoBranch(name, now) == name

\* BranchCalls, were the emptiness taken after the branch was created
BranchCallsReversed(empty, ok) ==
    <<Call("CreateBranch", ok, ok), Call("IsEmptyRepo", TRUE, empty)>>

\* isEmptyRepo := IsEmptyRepo(repoDir), then CreateBranch(...)
BranchCalls(empty, ok) ==
    <<Call("IsEmptyRepo", TRUE, empty), Call("CreateBranch", ok, ok)>>

Branch ==
    /\ pc = "CreateBranch"
    /\ \E ok \in BOOLEAN :
          /\ calls' = calls \o BranchCalls(IsEmptyRepo(wc), ok)
          /\ IF ok
             THEN /\ isEmptyRepo' = IsEmptyRepo(wc)
                  /\ wc' = CreateBranch(wc, syncRepoBranch(branchName, clock),
                                         config.TargetBranch)
                  /\ Goto("copyFiles")
                  /\ UNCHANGED tempDirs
             ELSE Return(Failed(repo, "branch creation failed:"), TRUE)
    /\ UNCHANGED <<inputs, history, remote, repos, branchName>>

Copy ==
    /\ pc = "copyFiles"
    /\ \E io \in BOOLEAN :
          LET r == copyFilesOn(outputDir, wc.tree)
              ok == io /\ r.ok
          IN /\ calls' = Append(calls, Call("copyFiles", ok, ok))
             /\ outputDir' = r.outputDir
             /\ IF ok
                THEN /\ wc' = [wc EXCEPT !.tree = r.repoDir]
                     /\ Goto("HasChanges")
                     /\ UNCHANGED <<tempDirs, isEmptyRepo>>
                ELSE Return(Failed(repo, "copy failed:"), TRUE)
    /\ UNCHANGED <<fileOpens, fileLines, scanFails, config, history, remote, repos,
                   branchName>>

Diff ==
    /\ pc = "HasChanges"
    /\ \E ok \in BOOLEAN :
          LET hasChanges == ok /\ HasChanges(wc) IN
          /\ calls' = Append(calls, Call("HasChanges", ok, hasChanges))
          /\ IF ~ok
             THEN Return(Failed(repo, "diff check failed:"), TRUE)
             ELSE IF NoChanges(hasChanges)
             THEN Return(Succeeded(repo, <<"no changes">>, <<>>), TRUE)
             ELSE /\ Goto("CommitAndPush")
                  /\ UNCHANGED <<tempDirs, wc, isEmptyRepo>>
    /\ UNCHANGED <<inputs, history, remote, repos, branchName>>

Push ==
    /\ pc = "CommitAndPush"
    /\ \E ok \in BOOLEAN :
          /\ calls' = Append(calls, Call("CommitAndPush", ok, ok))
          /\ IF ~ok
             THEN /\ Return(Failed(repo, "commit/push failed:"), TRUE)
                  /\ UNCHANGED remote
             ELSE /\ remote' = [remote EXCEPT ![repo] = CommitAndPush(@, wc)]
                  /\ IF Initializes(isEmptyRepo)
                     THEN Return(Succeeded(repo,
                                 InitializedMessage(config.TargetBranch, branchName),
                                 <<>>), TRUE)
                     ELSE /\ Goto(IF OpensPR(config.SyncMode)
                                  THEN "CreatePR" ELSE "MergeBranch")
                          /\ UNCHANGED <<tempDirs, wc, isEmptyRepo>>
    /\ UNCHANGED <<inputs, history, repos, branchName>>

PR ==
    /\ pc = "CreatePR"
    /\ \E ok \in BOOLEAN :
          /\ calls' = Append(calls, Call("CreatePR", ok, ok))
          /\ IF ~ok
             THEN /\ Return(Failed(repo, "PR creation failed:"), TRUE)
                  /\ UNCHANGED remote
             ELSE /\ remote' = [remote EXCEPT ![repo] =
                                   CreatePR(@, PRArgs(syncRepoBranch(branchName, clock),
                                                      config.TargetBranch))]
                  /\ Return(Succeeded(repo, <<>>, URL), TRUE)
    /\ UNCHANGED <<inputs, history, repos, branchName>>

Merge ==
    /\ pc = "MergeBranch"
    /\ \E ok \in BOOLEAN :
          /\ calls' = Append(calls, Call("MergeBranch", ok, ok))
          /\ IF ~ok
             THEN /\ Return(Failed(repo, "merge failed:"), TRUE)
                  /\ UNCHANGED remote
             ELSE /\ remote' = [remote EXCEPT ![repo] = MergeBranch(@, wc)]
                  /\ Return(Succeeded(repo, <<"merged">>, <<>>), TRUE)
    /\ UNCHANGED <<inputs, history, repos, branchName>>

Next ==
    \/ CheckGHInstalled
    \/ CheckGHAuth
    \/ LoadRepos
    \/ MkdirTemp
    \/ Clone
    \/ Branch
    \/ Copy
    \/ Diff
    \/ Push
    \/ PR
    \/ Merge

Spec == Init /\ [][Next]_vars

\* Run is one sequential process and every call it makes returns: a step
\* that can be taken is taken.  The manifest names one repository, any
\* number of times, and the repositories start out alike.
InitFair ==
    /\ Init
    /\ fileLines \in SeqsUpTo({LineAB, LineMalformed}, MaxLines)
    /\ \E rem \in RemoteStates(OutputTree) : remote = [r \in RepoNames |-> rem]

SpecFair == InitFair /\ [][Next]_vars /\ WF_vars(Next)

(***************************************************************************)
(* Two invocations of Run in succession on one repository: a later         *)
(* invocation is a new process, which finds the remote as the earlier one  *)
(* left it.                                                                *)
(***************************************************************************)
InitTwice ==
    /\ Init
    /\ fileOpens
    /\ ~scanFails
    /\ Len(fileLines) = 1

Rerun ==
    /\ pc = "done"
    /\ runNo < MaxRuns
    /\ runNo' = runNo + 1
    /\ prevResults' = results
    /\ \E t \in {clock, clock + 1} : clock' = t
    /\ pc' = "CheckGHInstalled"
    /\ repos' = <<>>
    /\ branchName' = <<>>
    /\ idx' = 0
    /\ results' = <<>>
    /\ successCount' = 0
    /\ skipCount' = 0
    /\ failCount' = 0
    /\ printed' = <<>>
    /\ runErr' = NilErr
    /\ UNCHANGED <<inputs, remote, remote0, loaded, started, tempDirs, wc, isEmptyRepo,
                   calls>>

NextTwice == Next \/ Rerun

SpecTwice == InitTwice /\ [][NextTwice]_vars

(***************************************************************************)
(* Invocations of Run while time passes: a second may go by at any point   *)
(* of a run, and between two runs.                                         *)
(***************************************************************************)
InitClock ==
    /\ Init
    /\ fileOpens
    /\ ~scanFails
    /\ fileLines = <<LineAB, LineCD>>
    /\ config.SyncMode \in {SyncModePR, SyncModeMerge}
    /\ remote = [r \in RepoNames |-> Remote(FALSE, OldTree)]

\* a second goes by
Tick ==
    /\ pc # "done"
    /\ clock < MaxClock
    /\ clock' = clock + 1
    /\ UNCHANGED <<inputs, remote, remote0, runNo, prevResults, loaded, started,
                   pc, loopVars, runErr, tempDirs, wc, isEmptyRepo, calls>>

\* Run is invoked again, in the same second or later; of the invocation
\* before it only the remote and the branch names are kept
RerunLater ==
    /\ pc = "done"
    /\ runNo < MaxRuns
    /\ runNo' = runNo + 1
    /\ \E t \in {clock, clock + 1} : clock' = t
    /\ pc' = "CheckGHInstalled"
    /\ repos' = <<>>
    /\ branchName' = <<>>
    /\ idx' = 0
    /\ results' = <<>>
    /\ successCount' = 0
    /\ skipCount' = 0
    /\ failCount' = 0
    /\ printed' = <<>>
    /\ runErr' = NilErr
    /\ calls' = <<>>
    /\ UNCHANGED <<inputs, remote, remote0, prevResults, loaded, started, tempDirs, wc,
                   isEmptyRepo>>

NextClock == Next \/ RerunLater \/ Tick

SpecClock == InitClock /\ [][NextClock]_vars

(***************************************************************************)
(* One invocation of Run with a target branch typed into the wizard: the   *)
(* input field takes any text, the default or another branch name.         *)
(***************************************************************************)
TargetBranches == {DefaultTargetBranch, "merged"}

InitBranch ==
    /\ InitWith(TargetBranches)
    /\ fileOpens
    /\ ~scanFails

SpecBranch == InitBranch /\ [][Next]_vars

(***************************************************************************)
(* The loader alone, on manifests of more kinds of line.                   *)
(***************************************************************************)
LoadLines ==
    { LineAB, LineCD, LineComment, LineBlank, LineMalformed,
      <<" ", "a", "/", "b", " ">>,     \* surrounded by blanks
      <<"\t", "c", "/", "d">>,         \* after a tab
      <<"a", "/">>, <<"/", "b">>,      \* an empty segment
      <<"a", "/", "b", "/", "c">>,     \* three segments
      <<"a", " ", "b", "/", "c">>,     \* a space inside
      <<"#", "a", "/", "b">>,          \* a commented-out target
      <<" ", "#", "a", "/", "b">> }    \* a comment after a blank

\* the characters of a line: a letter, the separator, the comment sign, blanks
LineChars == {"a", "/", "#", " ", "\t"}

\* every line of at most MaxLineLen characters
AllLines == SeqsUpTo(LineChars, MaxLineLen)

\* the manifest a/b, # comment, blank, c/d, malformed
ExampleManifest == <<LineAB, LineComment, LineBlank, LineCD, LineMalformed>>

InitLoad ==
    /\ fileOpens \in BOOLEAN
    /\ fileLines \in SeqsUpTo(LoadLines, MaxLoadLines) \cup {ExampleManifest}
                     \cup {<<l>> : l \in AllLines}
    /\ scanFails \in BOOLEAN
    /\ config = [SyncMode |-> SyncModePR, TargetBranch |-> DefaultTargetBranch]
    /\ outputDir = OutputTree
    /\ remote = [r \in RepoNames |-> Remote(FALSE, OldTree)]
    /\ remote0 = remote
    /\ clock = 0
    /\ runNo = 1
    /\ prevResults = <<>>
    /\ pc = "loader"
    /\ repos = <<>>
    /\ branchName = <<>>
    /\ idx = 0
    /\ results = <<>>
    /\ successCount = 0
    /\ skipCount = 0
    /\ failCount = 0
    /\ printed = <<>>
    /\ runErr = NilErr
    /\ tempDirs = {}
    /\ wc = NoWC
    /\ isEmptyRepo = FALSE
    /\ calls = <<>>
    /\ loaded = NotLoaded
    /\ started = <<>>

Load ==
    /\ pc = "loader"
    /\ loaded' = loadRepos(fileOpens, fileLines, scanFails)
    /\ pc' = "loaded"
    /\ UNCHANGED <<inputs, remote, remote0, clock, runNo, prevResults, started,
                   loopVars, runErr, tempDirs, wc, isEmptyRepo, calls>>

SpecLoad == InitLoad /\ [][Load]_vars

(***************************************************************************)
(* copyFiles alone, on every output directory and every working copy made  *)
(* of the entries below.  The copy fails where a file meets a directory.   *)
(***************************************************************************)
\* what the output holds at a path: a file, plain or executable, or a directory
SrcEntries == {NoEntry, File("new", "0644"), File("new", "0755"),
               Dir("0755"), Dir("0700")}

\* what a working copy holds at a path
DstEntries == {NoEntry, File("old", "0600"), Dir("0750")}

\* an entry lies in a directory
IsTree(t) ==
    \A p \in Paths : t[p].kind # "none" /\ Len(p) > 1 => t[Parent(p)].kind = "dir"

\* the generated output: files named *.md, in provider directories or at the top
SourceTrees ==
    {t \in [Paths -> SrcEntries] :
        /\ IsTree(t)
        /\ t[<<"README.md">>].kind = "none"
        /\ \A p \in {<<"cursor">>, <<"cursor", "sub">>} : t[p].kind # "file"
        /\ \A p \in Paths \ {<<"cursor">>, <<"cursor", "sub">>} : t[p].kind # "dir"}

\* the clone of a repository
DestTrees == {t \in [Paths -> DstEntries] : IsTree(t)}

InitCopy ==
    /\ fileOpens = TRUE
    /\ fileLines = <<LineAB>>
    /\ scanFails = FALSE
    /\ config = [SyncMode |-> SyncModePR, TargetBranch |-> DefaultTargetBranch]
    /\ outputDir \in SourceTrees
    /\ remote = [r \in RepoNames |-> Remote(FALSE, OldTree)]
    /\ remote0 = remote
    /\ clock = 0
    /\ runNo = 1
    /\ prevResults = <<>>
    /\ pc = "copier"
    /\ repos = <<>>
    /\ branchName = <<>>
    /\ idx = 0
    /\ results = <<>>
    /\ successCount = 0
    /\ skipCount = 0
    /\ failCount = 0
    /\ printed = <<>>
    /\ runErr = NilErr
    /\ tempDirs = {}
    /\ wc \in {[exists |-> TRUE, empty |-> FALSE, head |-> t, tree |-> t,
                branch |-> <<>>] : t \in DestTrees}
    /\ isEmptyRepo = FALSE
    /\ calls = <<>>
    /\ loaded = NotLoaded
    /\ started = <<>>

\* s.copyFiles(repoDir): what it leaves in the working copy, also when it fails
Overlay ==
    /\ pc = "copier"
    /\ LET r == copyFilesOn(outputDir, wc.tree) IN
       /\ wc' = [wc EXCEPT !.tree = r.repoDir]
       /\ outputDir' = r.outputDir
       /\ calls' = Append(calls, Call("copyFiles", r.ok, r.ok))
    /\ pc' = "copied"
    /\ UNCHANGED <<fileOpens, fileLines, scanFails, config, history, remote, loopVars,
                   runErr, tempDirs, isEmptyRepo>>

SpecCopy == InitCopy /\ [][Overlay]_vars

(***************************************************************************)
(* Properties.                                                             *)
(***************************************************************************)
\* the positions in calls of the calls of the current invocation of Run
ThisRun == {k \in 1..Len(calls) : calls[k].run = runNo}

\* the positions in calls of the calls made for repository i of this invocation
CallsOf(i) == {k \in ThisRun : calls[k].i = i}

Called(i, op) == \E k \in CallsOf(i) : calls[k].op = op

CalledOk(i, op) == \E k \in CallsOf(i) : calls[k].op = op /\ calls[k].ok

\* the value a call for repository i returned
Returned(i, op, val) ==
    \E k \in CallsOf(i) : calls[k].op = op /\ calls[k].ok /\ calls[k].val = val

\* the calls of this invocation are the last ones: how many came before them
RunStart == Len(calls) - Cardinality(ThisRun)

\* the n-th call of this invocation
NthCall(n) == calls[RunStart + n]

LoopDone == pc = "done" /\ repos # <<>>

StageMessage(op) ==
    CASE op = "MkdirTemp" -> "failed to create temp dir:"
      [] op = "CloneRepo" -> "clone failed:"
      [] op = "CreateBranch" -> "branch creation failed:"
      [] op = "copyFiles" -> "copy failed:"
      [] op = "HasChanges" -> "diff check failed:"
      [] op = "CommitAndPush" -> "commit/push failed:"
      [] op = "CreatePR" -> "PR creation failed:"
      [] op = "MergeBranch" -> "merge failed:"

\* the outcome of repository i as its own calls, and nothing else, determine it
OwnOutcome(i) ==
    LET last == calls[CHOOSE k \in CallsOf(i) : \A j \in CallsOf(i) : j <= k]
    IN IF ~last.ok THEN Failed(repos[i], StageMessage(last.op))
       ELSE CASE last.op = "HasChanges" -> Succeeded(repos[i], <<"no changes">>, <<>>)
              [] last.op = "CommitAndPush" ->
                   Succeeded(repos[i], <<"initialized", config.TargetBranch, "branch">>, <<>>)
              [] last.op = "CreatePR" -> Succeeded(repos[i], <<>>, URL)
              [] last.op = "MergeBranch" -> Succeeded(repos[i], <<"merged">>, <<>>)

\* no other entry of the manifest names the repository of entry i
ListedOnce(i) == \A j \in 1..Len(repos) : j # i => repos[j] # repos[i]

\* C1: failure isolation.  When the loop of Run has ended, every listed
\* repository was attempted and has a result, whichever repositories failed;
\* every result is the one the repository's own calls determine; and a
\* repository listed once met its remote as it was before the run, so that
\* what it saw does not depend on what happened to the others.
FailureIsolation ==
    /\ LoopDone =>
          /\ Len(results) = Len(repos)
          /\ \A i \in 1..Len(repos) : Called(i, "MkdirTemp")
    /\ \A i \in 1..Len(results) :
          /\ results[i] = OwnOutcome(i)
          /\ ListedOnce(i) /\ CalledOk(i, "CloneRepo") =>
                /\ Returned(i, "IsEmptyRepo", remote0[repos[i]].empty)
                /\ CalledOk(i, "HasChanges") =>
                      Returned(i, "HasChanges",
                               HasChanges([CloneRepo(remote0[repos[i]]) EXCEPT
                                   !.tree = copyFiles(outputDir, remote0[repos[i]].head).tree]))

\* a run in which the first repository failed and the one after it was merged
FailureIsolationWitness ==
    /\ LoopDone
    /\ Len(repos) = MaxLines
    /\ ~results[1].Success
    /\ results[Len(repos)].Message = <<"merged">>

\* the manifest lines that name a repository
IsTarget(text) ==
    LET t == TrimSpace(text) IN
    t # <<>> /\ t[1] # "#" /\ isValidRepoFormat(t)

Targets(lines) == SelectSeq(lines, IsTarget)

\* C2: one result per listed repository.  The results are appended one per
\* repository in manifest order: while the loop runs there is one result for
\* each repository before the current one, when it ends there is one per
\* manifest entry (a repeated entry counted each time), and the i-th result
\* names the i-th entry.
OneResultPerRepo ==
    /\ pc \notin {"done", "CheckGHInstalled", "CheckGHAuth", "loadRepos"} =>
          Len(results) = idx - 1
    /\ LoopDone => Len(results) = Len(Targets(fileLines))
    /\ \A i \in 1..Len(results) : results[i].Repo = TrimSpace(Targets(fileLines)[i])

\* a run over a manifest that lists the same repository twice
OneResultPerRepoWitness ==
    /\ LoopDone
    /\ Len(results) = 2
    /\ results[1].Repo = results[2].Repo
    /\ results[1].Success # results[2].Success

\* C4: a repository that had no commits when cloned never gets a review
\* request: CreatePR is not called for it, its result has no URL, and the
\* result is Failed, "no changes" or "initialized"; while it is being synced,
\* Run is never about to call CreatePR.
EmptyRepoNeverPR ==
    /\ wc.exists /\ wc.empty => pc # "CreatePR"
    /\ \A i \in 1..Len(results) :
          Returned(i, "IsEmptyRepo", TRUE) =>
             /\ ~Called(i, "CreatePR")
             /\ results[i].PRURL = <<>>
             /\ \/ ~results[i].Success
                \/ results[i].Message = <<"no changes">>
                \/ results[i].Message[1] = "initialized"

\* an empty repository synced to the end in mode "pr"
EmptyRepoNeverPRWitness ==
    /\ config.SyncMode = SyncModePR
    /\ \E i \in 1..Len(results) :
          /\ Returned(i, "IsEmptyRepo", TRUE)
          /\ CalledOk(i, "CommitAndPush")
          /\ results[i].Success

\* C5: an empty repository whose stages all succeeded is initialized: the
\* result is Success with the message "initialized <target branch> branch"
\* and no URL, and neither CreatePR nor MergeBranch was called, in every mode.
EmptyRepoInitialized ==
    \A i \in 1..Len(results) :
        Returned(i, "IsEmptyRepo", TRUE) /\ CalledOk(i, "CommitAndPush") =>
           /\ results[i].Success
           /\ results[i].Message = <<"initialized", config.TargetBranch, "branch">>
           /\ results[i].PRURL = <<>>
           /\ ~Called(i, "CreatePR")
           /\ ~Called(i, "MergeBranch")

\* an empty repository initialized in mode "merge"
EmptyRepoInitializedWitness ==
    /\ config.SyncMode = SyncModeMerge
    /\ \E i \in 1..Len(results) :
          /\ Returned(i, "IsEmptyRepo", TRUE)
          /\ results[i].Message = <<"initialized", "main", "branch">>
          /\ printed[i] = <<"initialized", "main", "branch">>

\* C6: when the diff check finds no changes the result is Success with the
\* message "no changes"; CommitAndPush, CreatePR and MergeBranch are not
\* called for that repository; and Run reports it as skipped, not as failed.
NoChangesIsSuccess ==
    \A i \in 1..Len(results) :
        Returned(i, "HasChanges", FALSE) =>
           /\ results[i] = Succeeded(repos[i], <<"no changes">>, <<>>)
           /\ ~Called(i, "CommitAndPush")
           /\ ~Called(i, "CreatePR")
           /\ ~Called(i, "MergeBranch")
           /\ printed[i] = <<"skipped (no changes)">>

\* a run that only skipped, and returned no error
NoChangesIsSuccessWitness ==
    /\ LoopDone
    /\ \A i \in 1..Len(repos) : Returned(i, "HasChanges", FALSE)
    /\ skipCount = Len(repos)
    /\ failCount = 0
    /\ runErr = NilErr

PrereqFailed ==
    \E k \in ThisRun :
        calls[k].op \in {"CheckGHInstalled", "CheckGHAuth"} /\ ~calls[k].ok

LoadFailed == \E k \in ThisRun : calls[k].op = "loadRepos" /\ ~calls[k].ok

SomeRepoFailed == \E i \in 1..Len(results) : ~results[i].Success

\* C7 as stated: Run returns an error if and only if some repository failed.
ErrorIffRepoFailed ==
    pc = "done" => (runErr # NilErr <=> SomeRepoFailed)

\* C7, amended: Run returns an error if and only if a prerequisite check
\* failed, the manifest could not be loaded, or some repository failed; after
\* the loop the error carries the number of failed repositories, and a
\* repository skipped for no changes is not among them.
ErrorIffFailure ==
    pc = "done" =>
       /\ runErr # NilErr <=> (PrereqFailed \/ LoadFailed \/ SomeRepoFailed)
       /\ LoopDone =>
             /\ runErr # NilErr <=> SomeRepoFailed
             /\ runErr.n = Cardinality({i \in 1..Len(results) : ~results[i].Success})
             /\ \A i \in 1..Len(results) :
                   results[i].Message = <<"no changes">> => results[i].Success

\* a run that skipped a repository, failed none and returned no error
ErrorIffFailureWitness ==
    /\ LoopDone
    /\ Len(repos) = 2
    /\ results[1].Message = <<"no changes">>
    /\ results[2].Message = <<"merged">>
    /\ runErr = NilErr

\* C8: the prerequisite checks come first and are fatal.  The first call of
\* a run is CheckGHInstalled and the second CheckGHAuth; nothing else is
\* called unless both succeeded; and when one fails Run has returned that
\* error without reading the manifest, creating a temporary directory,
\* cloning or producing a result.
PrereqFirst ==
    /\ LET first == RunStart + 1 IN
       \A k \in ThisRun :
          calls[k].op \notin {"CheckGHInstalled", "CheckGHAuth"} =>
             /\ k >= first + 2
             /\ calls[first].op = "CheckGHInstalled" /\ calls[first].ok
             /\ calls[first + 1].op = "CheckGHAuth" /\ calls[first + 1].ok
    /\ PrereqFailed =>
          /\ pc = "done"
          /\ runErr.err = IF ~calls[RunStart + 1].ok THEN "gh not installed"
                          ELSE "gh not authenticated"
          /\ Cardinality(ThisRun) <= 2
          /\ results = <<>>
          /\ tempDirs = {}
          /\ ~wc.exists
    /\ pc \notin {"CheckGHInstalled", "CheckGHAuth", "done"} =>
          /\ Cardinality(ThisRun) >= 2
          /\ ~PrereqFailed

\* a run that ended at the failed authentication check
PrereqFirstWitness ==
    /\ pc = "done"
    /\ Cardinality(ThisRun) = 2
    /\ NthCall(2).op = "CheckGHAuth"
    /\ ~NthCall(2).ok
    /\ runErr.err = "gh not authenticated"
    /\ Len(Targets(fileLines)) > 0

\* C9: an unreadable manifest is fatal.  When sync_repos.md cannot be opened
\* or read, Run returns an error that wraps the loader's, and no temporary
\* directory exists, no repository is cloned and no result is produced.
ManifestUnreadableFatal ==
    (\E k \in ThisRun : calls[k].op = "loadRepos")
       /\ (~fileOpens \/ scanFails) =>
          /\ pc = "done"
          /\ runErr.err = "failed to load repositories"
          /\ runErr.cause = IF ~fileOpens THEN "open" ELSE "read"
          /\ NthCall(Cardinality(ThisRun)).op = "loadRepos"
          /\ results = <<>>
          /\ repos = <<>>
          /\ tempDirs = {}

\* a run whose manifest lists repositories and could not be read to the end
ManifestUnreadableFatalWitness ==
    /\ pc = "done"
    /\ fileOpens
    /\ scanFails
    /\ Len(Targets(fileLines)) > 0
    /\ LoadFailed
    /\ runErr.cause = "read"

\* line put into lines before position k
Inserted(lines, k, line) ==
    SubSeq(lines, 1, k - 1) \o <<line>> \o SubSeq(lines, k, Len(lines))

\* C10: the loader returns the valid lines and nothing else.  For a manifest
\* that is read to the end, loadRepos returns no error, whatever the lines
\* are; it returns the lines that name a repository, trimmed, each as often
\* and in the order it is listed; and a line that names none, put anywhere
\* into the manifest, leaves the result as it is.
LoadReturnsValidLines ==
    pc = "loaded" /\ fileOpens /\ ~scanFails =>
       /\ loaded.err = "nil"
       /\ Len(loaded.repos) = Cardinality({k \in 1..Len(fileLines) : IsTarget(fileLines[k])})
       /\ \A i \in 1..Len(loaded.repos) :
             loaded.repos[i] = TrimSpace(Targets(fileLines)[i])
       /\ \A k \in 1..(Len(fileLines) + 1) :
             \A line \in {x \in LoadLines : ~IsTarget(x)} :
                loadRepos(TRUE, Inserted(fileLines, k, line), FALSE) = loaded

\* the manifest a/b, # comment, blank, c/d, malformed yields a/b, c/d
LoadReturnsValidLinesWitness ==
    /\ pc = "loaded"
    /\ fileLines = ExampleManifest
    /\ loaded = [repos |-> <<LineAB, LineCD>>, err |-> "nil"]

\* the positions of the separator in line t
Slashes(t) == {k \in 1..Len(t) : t[k] = "/"}

\* t is two segments around one separator, both non-empty and free of the
\* characters of blanks
TwoSegmentsFreeOf(t, blanks) ==
    /\ Cardinality(Slashes(t)) = 1
    /\ \A k \in Slashes(t) : 1 < k /\ k < Len(t)
    /\ \A k \in 1..Len(t) : t[k] \notin blanks

\* the loader, given the manifest of one line, accepted the line
AcceptedAlone == pc = "loaded" /\ fileOpens /\ ~scanFails /\ Len(fileLines) = 1

\* C11 as stated: a line is accepted if and only if, trimmed, it is two
\* non-empty segments free of any whitespace.
AcceptedIffWhitespaceFree ==
    AcceptedAlone =>
       (loaded.repos # <<>> <=>
           TwoSegmentsFreeOf(TrimSpace(fileLines[1]), {" ", "\t"}))

\* C11, amended: a line is accepted if and only if, trimmed, it is not a
\* comment and is two non-empty segments free of the space character; a tab
\* inside a segment does not make the line invalid.  The accepted line is
\* returned trimmed.
AcceptedIffSpaceFree ==
    AcceptedAlone =>
       LET t == TrimSpace(fileLines[1]) IN
       /\ loaded.repos # <<>> <=> (TwoSegmentsFreeOf(t, {" "}) /\ t[1] # "#")
       /\ loaded.repos # <<>> => loaded.repos = <<t>>

\* a line with a tab inside its owner segment is accepted
AcceptedIffSpaceFreeWitness ==
    /\ AcceptedAlone
    /\ fileLines[1] = <<"a", "\t", "/", "a">>
    /\ loaded.repos = <<fileLines[1]>>

\* C12: a manifest without valid entries is nothing to do.  When the
\* manifest is read and lists no repository, loadRepos returns no error and
\* Run returns nil right after it: no temporary directory, no clone, no
\* result, no failure counted.
EmptyManifestIsSuccess ==
    /\ fileOpens /\ ~scanFails /\ Targets(fileLines) = <<>> =>
          /\ loadRepos(fileOpens, fileLines, scanFails) = [repos |-> <<>>, err |-> "nil"]
          /\ \A k \in ThisRun : calls[k].i = 0
          /\ results = <<>>
          /\ failCount = 0
          /\ tempDirs = {}
          /\ ~wc.exists
          /\ pc \in {"CheckGHInstalled", "CheckGHAuth", "loadRepos", "done"}
    /\ pc = "done" /\ ~PrereqFailed /\ ~LoadFailed /\ repos = <<>> =>
          /\ runErr = NilErr
          /\ NthCall(Cardinality(ThisRun)).op = "loadRepos"
          /\ NthCall(Cardinality(ThisRun)).ok

\* a run over a manifest holding only a malformed line
EmptyManifestIsSuccessWitness ==
    /\ pc = "done"
    /\ fileLines = <<LineMalformed>>
    /\ ~PrereqFailed
    /\ ~LoadFailed
    /\ runErr = NilErr

\* the stages of syncRepo that can fail
Stages == {"MkdirTemp", "CloneRepo", "CreateBranch", "copyFiles", "HasChanges",
           "CommitAndPush", "CreatePR", "MergeBranch"}

\* C13: a failed stage ends the repository at once.  A call that failed is
\* the last call made for its repository; the result is Failed, its message
\* names the stage and carries the stage's error, and it has no URL; while a
\* repository is being synced none of its calls has failed; and the error
\* stays in the result: Run goes on, and what it returns after the loop is
\* the count of failures, not the error of a stage.
StageFailureIsTerminal ==
    /\ \A k \in ThisRun :
          calls[k].i >= 1 /\ ~calls[k].ok =>
             /\ calls[k].op \in Stages
             /\ \A j \in CallsOf(calls[k].i) : j <= k
             /\ calls[k].i <= Len(results)
             /\ results[calls[k].i] =
                   [Repo |-> repos[calls[k].i], Success |-> FALSE,
                    Message |-> <<StageMessage(calls[k].op), ErrText>>,
                    PRURL |-> <<>>]
    /\ \A i \in 1..Len(results) :
          ~results[i].Success => \E k \in CallsOf(i) : ~calls[k].ok
    /\ pc \notin {"done", "CheckGHInstalled", "CheckGHAuth", "loadRepos"} =>
          runErr = NilErr
    /\ LoopDone => runErr \in {NilErr, [err |-> "repositories failed to sync",
                                        n |-> failCount, cause |-> ""]}

\* a repository whose push failed, followed by another repository
StageFailureIsTerminalWitness ==
    /\ Len(results) = 1
    /\ results[1].Message = <<"commit/push failed:", ErrText>>
    /\ pc = "CloneRepo"
    /\ idx = 2

\* C14: the working copy is deleted on every exit path.  Whenever syncRepo
\* has returned, for whichever reason, the temporary directory of that
\* repository does not exist any more and no working copy is left; after Run
\* has returned none is left at all.
WorkingCopyRemoved ==
    /\ \A i \in 1..Len(results) : i \notin tempDirs
    /\ pc \in {"MkdirTemp", "done"} => tempDirs = {} /\ ~wc.exists
    /\ wc.exists => idx \in tempDirs

\* syncRepo returned after a failed overlay and after a diff check without changes
WorkingCopyRemovedWitness ==
    /\ LoopDone
    /\ Len(results) = 2
    /\ results[1].Message = <<"copy failed:", ErrText>>
    /\ results[2].Message = <<"no changes">>
    /\ CalledOk(1, "CloneRepo")
    /\ tempDirs = {}

\* C15: one repository at a time.  At most one temporary directory exists,
\* that of the repository being synced; the calls are made in the order of
\* the manifest; and a call is made for a repository only when every
\* repository before it has its result.
OneAtATime ==
    /\ Cardinality(tempDirs) <= 1
    /\ tempDirs \subseteq {idx}
    /\ \A k \in ThisRun : \A j \in ThisRun : j < k => calls[j].i <= calls[k].i
    /\ \A k \in ThisRun : calls[k].i >= 1 =>
          /\ calls[k].i <= Len(results) + 1
          /\ calls[k].i <= idx
    /\ pc \in Stages \/ pc = "copyFiles" => Len(results) = idx - 1

\* the second repository is cloned after the first one got its result
OneAtATimeWitness ==
    /\ pc = "CreateBranch"
    /\ idx = 2
    /\ Len(results) = 1
    /\ tempDirs = {2}
    /\ wc.exists

\* repository i of this run was cloned with commits, its overlay had changes
\* and its commit was pushed
PushedChanges(i) ==
    /\ Returned(i, "IsEmptyRepo", FALSE)
    /\ Returned(i, "HasChanges", TRUE)
    /\ CalledOk(i, "CommitAndPush")

\* C16: mode "pr".  For a repository with commits whose changes were pushed,
\* CreatePR is the next call, and it is made with the branch name of the run
\* and the configured target branch; when it succeeds the result is a Success
\* whose URL is not empty and Run prints that URL, and the request is open on
\* the remote; when it fails the result is Failed; MergeBranch is not called
\* for any repository.
PRModeOpensRequest ==
    config.SyncMode = SyncModePR =>
       \A i \in 1..Len(repos) :
          /\ ~Called(i, "MergeBranch")
          /\ Called(i, "CreatePR") => PushedChanges(i)
          /\ PushedChanges(i) =>
                /\ Called(i, "CreatePR") \/ (idx = i /\ pc = "CreatePR")
                /\ i <= Len(results) => Called(i, "CreatePR")
          /\ CalledOk(i, "CreatePR") =>
                /\ i <= Len(results)
                /\ results[i].Success
                /\ results[i].PRURL # <<>>
                /\ results[i] = Succeeded(repos[i], <<>>, URL)
                /\ printed[i] = <<"PR created:">> \o URL
                /\ remote[repos[i]].prs =
                      {[head |-> branchName, base |-> <<config.TargetBranch>>]}
          /\ Called(i, "CreatePR") /\ ~CalledOk(i, "CreatePR") =>
                /\ i <= Len(results)
                /\ results[i] = Failed(repos[i], "PR creation failed:")
          /\ ~Called(i, "CreatePR") /\ ListedOnce(i) => remote[repos[i]].prs = {}

\* one repository got its review request, the request for the other one failed
PRModeOpensRequestWitness ==
    /\ config.SyncMode = SyncModePR
    /\ LoopDone
    /\ Len(results) = 2
    /\ PushedChanges(1) /\ CalledOk(1, "CreatePR")
    /\ results[1].PRURL = URL
    /\ PushedChanges(2) /\ Called(2, "CreatePR") /\ ~results[2].Success

\* C17: mode "merge".  For a repository with commits whose changes were
\* pushed, MergeBranch is the next call, made in the working copy that is
\* on the branch of the run; when it succeeds the result is a Success with
\* the message "merged" and no URL, and the head of the remote is the
\* overlaid tree; when it fails the result is Failed; CreatePR is not called
\* for any repository and no review request is opened.
MergeModeMerges ==
    config.SyncMode = SyncModeMerge =>
       \A i \in 1..Len(repos) :
          /\ ~Called(i, "CreatePR")
          /\ remote[repos[i]].prs = {}
          /\ Called(i, "MergeBranch") => PushedChanges(i)
          /\ PushedChanges(i) =>
                /\ Called(i, "MergeBranch") \/ (idx = i /\ pc = "MergeBranch")
                /\ i <= Len(results) => Called(i, "MergeBranch")
                /\ idx = i /\ pc = "MergeBranch" => wc.branch = branchName
                /\ branchName \in remote[repos[i]].branches
          /\ CalledOk(i, "MergeBranch") =>
                /\ i <= Len(results)
                /\ results[i] = [Repo |-> repos[i], Success |-> TRUE,
                                 Message |-> <<"merged">>, PRURL |-> <<>>]
                /\ printed[i] = <<"merged to", config.TargetBranch>>
                /\ remote[repos[i]].head =
                      copyFiles(outputDir, remote0[repos[i]].head).tree
          /\ Called(i, "MergeBranch") /\ ~CalledOk(i, "MergeBranch") =>
                /\ i <= Len(results)
                /\ results[i] = Failed(repos[i], "merge failed:")
                /\ ListedOnce(i) => remote[repos[i]].head = remote0[repos[i]].head

\* one repository was merged, the merge of the other one failed
MergeModeMergesWitness ==
    /\ config.SyncMode = SyncModeMerge
    /\ LoopDone
    /\ Len(results) = 2
    /\ PushedChanges(1) /\ CalledOk(1, "MergeBranch")
    /\ results[1].Message = <<"merged">>
    /\ PushedChanges(2) /\ Called(2, "MergeBranch") /\ ~results[2].Success

\* the results so far that Run counts in a bucket
Bucket(b) ==
    {i \in 1..Len(results) :
        CASE b = "fail" -> ~results[i].Success
          [] b = "skip" -> results[i].Success /\ results[i].PRURL = <<>>
                              /\ Contains(results[i].Message, "no changes")
          [] b = "success" -> results[i].Success
                                 /\ (results[i].PRURL # <<>>
                                     \/ ~Contains(results[i].Message, "no changes"))}

\* C18: the tally partitions the results.  After every prefix of the loop
\* the three counters sum to the number of results, each counter is the
\* number of results of its bucket, the buckets are disjoint and cover the
\* results, and the failed count is the number of results with Success
\* false; after the loop the sum is the number of listed repositories and
\* the failed count is the number in the error Run returns.
TallyPartitions ==
    /\ successCount + skipCount + failCount = Len(results)
    /\ successCount = Cardinality(Bucket("success"))
    /\ skipCount = Cardinality(Bucket("skip"))
    /\ failCount = Cardinality(Bucket("fail"))
    /\ failCount = Cardinality({i \in 1..Len(results) : ~results[i].Success})
    /\ Bucket("success") \cup Bucket("skip") \cup Bucket("fail") = 1..Len(results)
    /\ Bucket("success") \cap Bucket("skip") = {}
    /\ Bucket("success") \cap Bucket("fail") = {}
    /\ Bucket("skip") \cap Bucket("fail") = {}
    /\ Len(printed) = Len(results)
    /\ pc \in Stages \/ pc = "copyFiles" => Len(results) = idx - 1
    /\ LoopDone =>
          /\ successCount + skipCount + failCount = Len(repos)
          /\ failCount > 0 => runErr.n = failCount
          /\ failCount = 0 => runErr = NilErr

\* a run with one repository skipped and one failed
TallyPartitionsWitness ==
    /\ LoopDone
    /\ Len(results) = 2
    /\ skipCount = 1
    /\ failCount = 1
    /\ successCount = 0
    /\ runErr.n = 1

\* the place of a call in syncRepo
Rank(op) ==
    CASE op = "MkdirTemp" -> 0
      [] op = "CloneRepo" -> 1
      [] op = "IsEmptyRepo" -> 2
      [] op = "CreateBranch" -> 3
      [] op = "copyFiles" -> 4
      [] op = "HasChanges" -> 5
      [] op = "CommitAndPush" -> 6
      [] op = "CreatePR" -> 7
      [] op = "MergeBranch" -> 7

\* C19: the order of the calls within one repository.  The calls of a
\* repository start with the creation of the temporary directory; every
\* other call directly follows the call one place before it in the order
\* Clone, emptiness check, CreateBranch, copyFiles, HasChanges, CommitAndPush,
\* CreatePR or MergeBranch, and that call succeeded.  Hence no call is made
\* twice for a repository, CreatePR and MergeBranch are never both made, and
\* the emptiness is taken between the clone and the creation of the branch.
StageOrder ==
    /\ \A k \in ThisRun :
          calls[k].i >= 1 =>
             IF calls[k].op = "MkdirTemp"
             THEN calls[k - 1].run = runNo /\ calls[k - 1].i < calls[k].i
             ELSE /\ calls[k - 1].run = runNo
                  /\ calls[k - 1].i = calls[k].i
                  /\ calls[k - 1].ok
                  /\ Rank(calls[k - 1].op) = Rank(calls[k].op) - 1
    /\ \A i \in 1..Len(repos) :
          /\ Cardinality(CallsOf(i)) <= 8
          /\ \A k \in CallsOf(i) : \A j \in CallsOf(i) :
                j < k => Rank(calls[j].op) < Rank(calls[k].op)
          /\ ~(Called(i, "CreatePR") /\ Called(i, "MergeBranch"))

\* a repository that went through every stage up to the merge
StageOrderWitness ==
    /\ Len(results) >= 1
    /\ results[1].Message = <<"merged">>
    /\ Cardinality(CallsOf(1)) = 8
    /\ Called(1, "IsEmptyRepo")

\* the terminal state of repository i, read off the last call made for it
TerminalState(i) ==
    LET last == calls[CHOOSE k \in CallsOf(i) : \A j \in CallsOf(i) : j <= k]
    IN IF ~last.ok THEN "Failed"
       ELSE CASE last.op = "HasChanges" -> "NoChanges"
              [] last.op = "CommitAndPush" -> "Initialized"
              [] last.op = "CreatePR" -> "ReviewRequested"
              [] last.op = "MergeBranch" -> "Merged"

\* the line the specification gives for a terminal state
LineOf(i) ==
    CASE TerminalState(i) = "Failed" -> <<"failed:">> \o results[i].Message
      [] TerminalState(i) = "NoChanges" -> <<"skipped (no changes)">>
      [] TerminalState(i) = "Initialized" ->
            <<"initialized", config.TargetBranch, "branch">>
      [] TerminalState(i) = "ReviewRequested" -> <<"PR created:">> \o results[i].PRURL
      [] TerminalState(i) = "Merged" -> <<"merged to", config.TargetBranch>>

InState(states) == {i \in 1..Len(results) : TerminalState(i) \in states}

\* C20: the line and the bucket match the terminal state, whatever the target
\* branch is called.  Every repository with a result was reported with the
\* line of its terminal state, the lines of different terminal states being
\* different; the skipped count is the number of repositories without
\* changes, the failed count the number of failed ones and the
\* created/merged count the number of the others.
LineMatchesTerminalState ==
    /\ \A i \in 1..Len(results) : printed[i] = LineOf(i)
    /\ skipCount = Cardinality(InState({"NoChanges"}))
    /\ failCount = Cardinality(InState({"Failed"}))
    /\ successCount =
          Cardinality(InState({"Initialized", "ReviewRequested", "Merged"}))

\* copyFiles has returned; wc.head is the working copy as it was before
Copied == pc = "copied"

CopiedOk == Copied /\ calls[1].ok

\* a file of the output meets a directory of the working copy, or a
\* directory of the output meets a file
Clash == \E p \in Paths :
            /\ outputDir[p].kind # "none"
            /\ wc.head[p].kind # "none"
            /\ outputDir[p].kind # wc.head[p].kind

\* C21: the overlay never deletes.  After copyFiles, whether it succeeded or
\* stopped half-way, every entry the working copy had before is still there
\* as the same kind of entry, and an entry at a path where the output has
\* none is unchanged in content and mode.
OverlayNeverDeletes ==
    Copied =>
       \A p \in Paths :
          wc.head[p].kind # "none" =>
             /\ wc.tree[p].kind = wc.head[p].kind
             /\ outputDir[p].kind = "none" => wc.tree[p] = wc.head[p]

\* a README.md the output does not have survived next to an overwritten file
OverlayNeverDeletesWitness ==
    /\ CopiedOk
    /\ outputDir[<<"README.md">>].kind = "none"
    /\ wc.head[<<"README.md">>].kind = "file"
    /\ wc.tree[<<"README.md">>] = wc.head[<<"README.md">>]
    /\ wc.head[<<"AGENTS.md">>].data = "old"
    /\ wc.tree[<<"AGENTS.md">>].data = "new"
    /\ outputDir[<<"cursor", "sub">>].kind = "none"
    /\ wc.tree[<<"cursor", "sub", "deep.md">>].data = "old"

\* C22: the overlay copies every file.  After a successful copyFiles every
\* file of the output, at the top or at any depth, is a file of the working
\* copy with the content of the source, whatever was there before, and
\* every directory of the output is a directory of the working copy;
\* copyFiles succeeds unless a file meets a directory.
OverlayCopiesEveryFile ==
    /\ CopiedOk =>
          \A p \in Paths :
             /\ outputDir[p].kind = "file" =>
                   /\ wc.tree[p].kind = "file"
                   /\ wc.tree[p].data = outputDir[p].data
             /\ outputDir[p].kind = "dir" => wc.tree[p].kind = "dir"
    /\ Copied => (calls[1].ok <=> ~Clash)

\* a top-level file overwritten and a file two directories down created
\* together with its directories
OverlayCopiesEveryFileWitness ==
    /\ CopiedOk
    /\ wc.head[<<"AGENTS.md">>].data = "old"
    /\ wc.tree[<<"AGENTS.md">>].data = "new"
    /\ wc.head[<<"cursor">>].kind = "none"
    /\ wc.tree[<<"cursor", "sub">>].kind = "dir"
    /\ wc.tree[<<"cursor", "sub", "deep.md">>].data = "new"

\* C23: the overlay preserves permissions.  After a successful copyFiles
\* every file of the output has in the working copy the mode of the source
\* file, and every directory the overlay created has the mode of the source
\* directory.
OverlayPreservesPermissions ==
    CopiedOk =>
       \A p \in Paths :
          /\ outputDir[p].kind = "file" => wc.tree[p].mode = outputDir[p].mode
          /\ outputDir[p].kind = "dir" /\ wc.head[p].kind = "none" =>
                wc.tree[p].mode = outputDir[p].mode

\* C24: the generated output is read-only for the whole run.  No step of
\* Run changes any entry of the output directory, and the working copy of
\* every repository, when its overlay has succeeded, is its clone overlaid
\* with the output as it was when the run started.
OutputReadOnly ==
    /\ [][outputDir' = outputDir]_vars
    /\ [](pc = "HasChanges" =>
             wc.tree = copyFiles(OutputTree, wc.head).tree)

\* the overlay of the second repository succeeded as did that of the first
OutputReadOnlyWitness ==
    /\ pc = "HasChanges"
    /\ idx = 2
    /\ CalledOk(1, "copyFiles")
    /\ CalledOk(2, "copyFiles")
    /\ outputDir = OutputTree
    /\ wc.tree # wc.head

\* Run is in its loop, or has left it
InLoop == pc \in Stages \/ LoopDone

\* this run has computed its branch name
Started == started # <<>> /\ started[Len(started)].run = runNo

\* the second and the name of this run
ThisStart == started[Len(started)]

\* C25: the branch name is computed once per run.  The name is the prefix
\* agentspack/update- followed by the second at which it was computed; it is
\* computed before anything is called for the first repository; while the
\* run goes on and time passes, the name Run holds, the branch created in
\* every working copy with commits and the head of every review request are
\* that name; and two runs have the same name if and only if they computed
\* it in the same second.
BranchNameOncePerRun ==
    /\ \A r \in 1..Len(started) :
          started[r].branch = <<"agentspack/update-", TimeStamps[started[r].at + 1]>>
    /\ \A k \in ThisRun : calls[k].i >= 1 => Started
    /\ InLoop =>
          /\ Started
          /\ branchName = ThisStart.branch
          /\ ThisStart.at <= clock
    /\ wc.exists /\ ~wc.empty /\ wc.branch # <<>> => wc.branch = ThisStart.branch
    /\ \A r1 \in 1..Len(started) : \A r2 \in 1..Len(started) :
          r1 < r2 => started[r1].run < started[r2].run
    /\ \A n \in RepoNames :
          /\ remote[n].branches \subseteq {started[r].branch : r \in 1..Len(started)}
          /\ \A pr \in remote[n].prs :
                \E r \in 1..Len(started) : pr.head = started[r].branch
    /\ \A r1 \in 1..Len(started) : \A r2 \in 1..Len(started) :
          started[r1].at = started[r2].at <=> started[r1].branch = started[r2].branch

\* the second run started in the same second as the first and has the same
\* name; a second later its second repository is given that same name
BranchNameOncePerRunWitness ==
    /\ runNo = 2
    /\ Len(started) = 2
    /\ started[1].at = started[2].at
    /\ started[1].branch = started[2].branch
    /\ pc = "copyFiles"
    /\ idx = 2
    /\ clock > started[2].at
    /\ wc.branch = branchName
    /\ Called(1, "CreateBranch")

\* the place of a position of Run in the order of its code
StageNo(at) ==
    CASE at = "CheckGHInstalled" -> 1
      [] at = "CheckGHAuth" -> 2
      [] at = "loadRepos" -> 3
      [] at = "MkdirTemp" -> 4
      [] at = "CloneRepo" -> 5
      [] at = "CreateBranch" -> 6
      [] at = "copyFiles" -> 7
      [] at = "HasChanges" -> 8
      [] at = "CommitAndPush" -> 9
      [] at = "CreatePR" -> 10
      [] at = "MergeBranch" -> 10
      [] at = "done" -> 11

\* how far Run has come: the repository it is at, then the stage
Progress == IF pc = "done" THEN 12 * (MaxLines + 2) ELSE 12 * idx + StageNo(pc)

\* the five terminal outcomes
TerminalOutcome(result) ==
    \/ ~result.Success
    \/ result.PRURL # <<>>
    \/ result.Message \in {<<"no changes">>, <<"merged">>,
                           <<"initialized", config.TargetBranch, "branch">>}

\* C26: termination.  Every call returning, Run eventually returns, and
\* when it does every repository whose sync had begun has its result: a
\* sync begins only for a listed repository that has none, and at the return
\* every listed repository has one.  A result is one of the five terminal
\* outcomes and is never replaced or followed by a second one for the same
\* repository; and every step takes Run further in the order of its code,
\* so that no position is taken twice.
RunTerminates ==
    /\ <>(pc = "done" /\ Len(results) = Len(repos))
    /\ [](/\ Len(results) <= Len(repos)
          /\ \A i \in 1..Len(results) : TerminalOutcome(results[i])
          /\ \A i \in 1..Len(results) : Called(i, "MkdirTemp")
          /\ pc \in Stages => idx = Len(results) + 1 /\ idx <= Len(repos))
    /\ [][/\ Progress' > Progress
          /\ Len(results') \in {Len(results), Len(results) + 1}
          /\ \A i \in 1..Len(results) : results'[i] = results[i]]_vars

\* Run has returned after two repositories, one failed and one merged
RunTerminatesWitness ==
    /\ pc = "done"
    /\ Len(repos) = 2
    /\ Len(results) = 2
    /\ ~results[1].Success
    /\ results[2].Message = <<"merged">>
    /\ Cardinality(ThisRun) >= 12

\* C27: the mode is tested for "pr" only.  For a repository with commits
\* whose changes were pushed, CreatePR is called if and only if SyncMode is
\* "pr"; with every other value, the zero value "" among them, MergeBranch is
\* called, and when it succeeds the target branch of the remote holds the
\* overlaid tree.  Neither is called for any other repository.
ModeTestsOnlyPR ==
    \A i \in 1..Len(repos) :
       /\ Called(i, "CreatePR") => config.SyncMode = SyncModePR /\ PushedChanges(i)
       /\ Called(i, "MergeBranch") => config.SyncMode # SyncModePR /\ PushedChanges(i)
       /\ PushedChanges(i) /\ i <= Len(results) =>
             /\ Called(i, "CreatePR") <=> config.SyncMode = SyncModePR
             /\ Called(i, "MergeBranch") <=> config.SyncMode # SyncModePR
       /\ PushedChanges(i) /\ i > Len(results) =>
             /\ idx = i
             /\ pc = IF config.SyncMode = SyncModePR THEN "CreatePR" ELSE "MergeBranch"
       /\ CalledOk(i, "MergeBranch") =>
             /\ results[i].Message = <<"merged">>
             /\ remote[repos[i]].head = copyFiles(outputDir, remote0[repos[i]].head).tree

\* with the mode left unset the repository was merged
ModeTestsOnlyPRWitness ==
    /\ config.SyncMode = ""
    /\ Len(results) >= 1
    /\ PushedChanges(1)
    /\ CalledOk(1, "MergeBranch")
    /\ results[1].Message = <<"merged">>
    /\ remote[repos[1]].head # remote0[repos[1]].head

\* C28: the shape of a result.  A result with a URL is a Success, of a run in
\* mode "pr", for a repository that had commits when the run started and when
\* it was cloned, after a push that succeeded; a Failed result has no URL and
\* a message; a Success without a URL has the message "no changes", "merged"
\* or "initialized <branch> branch".
ResultShape ==
    \A i \in 1..Len(results) :
       /\ results[i].PRURL # <<>> =>
             /\ results[i].Success
             /\ config.SyncMode = SyncModePR
             /\ Returned(i, "IsEmptyRepo", FALSE)
             /\ ~remote0[repos[i]].empty
             /\ CalledOk(i, "CommitAndPush")
       /\ ~results[i].Success =>
             /\ results[i].PRURL = <<>>
             /\ results[i].Message # <<>>
       /\ results[i].Success /\ results[i].PRURL = <<>> =>
             results[i].Message \in
                {<<"no changes">>, <<"merged">>,
                 <<"initialized", config.TargetBranch, "branch">>}

\* a result with a URL, then an initialized repository
ResultShapeWitness ==
    /\ Len(results) = 2
    /\ results[1].PRURL # <<>>
    /\ results[2].Message = <<"initialized", config.TargetBranch, "branch">>

\* C29: a Failed result does not mean the remote is unchanged.  When the push
\* succeeded and the review request or the merge failed, the result is
\* Failed, nothing is called after the failed call, and the branch of the run
\* is on the remote.  A repository for which the push was not reached, because
\* an earlier stage failed or because there were no changes, had no call that
\* pushes, and when it is listed once its remote is as it was before the run.
FailedAfterPush ==
    \A i \in 1..Len(results) :
       /\ CalledOk(i, "CommitAndPush") /\ ~results[i].Success =>
             /\ \E k \in CallsOf(i) :
                   /\ calls[k].op \in {"CreatePR", "MergeBranch"}
                   /\ ~calls[k].ok
                   /\ \A j \in CallsOf(i) : j <= k
             /\ branchName \in remote[repos[i]].branches
             /\ remote[repos[i]] # remote0[repos[i]]
       /\ Returned(i, "HasChanges", FALSE) =>
             /\ results[i].Message = <<"no changes">>
             /\ ~Called(i, "CommitAndPush")
       /\ results[i].Message \in
             {<<StageMessage(op), ErrText>> :
                 op \in {"MkdirTemp", "CloneRepo", "CreateBranch", "copyFiles", "HasChanges"}}
             => ~Called(i, "CommitAndPush")
       /\ ~Called(i, "CommitAndPush") =>
             /\ ~Called(i, "CreatePR")
             /\ ~Called(i, "MergeBranch")
             /\ ListedOnce(i) => remote[repos[i]] = remote0[repos[i]]

\* the review request failed and the pushed branch is on the remote
FailedAfterPushWitness ==
    /\ Len(results) >= 1
    /\ results[1] = Failed(repos[1], "PR creation failed:")
    /\ branchName \in remote[repos[1]].branches
    /\ branchName \notin remote0[repos[1]].branches
    /\ remote[repos[1]].prs = {}

\* C30: the temporary directory cannot be created.  The result of that
\* repository is Failed with the message of that stage, the failed MkdirTemp
\* is the only call made for it, it is printed and counted as failed, no
\* directory is left, and Run goes on to the next repository.
TempDirFailure ==
    \A k \in ThisRun :
       calls[k].op = "MkdirTemp" /\ ~calls[k].ok =>
          LET i == calls[k].i IN
          /\ CallsOf(i) = {k}
          /\ i <= Len(results)
          /\ results[i] = [Repo |-> repos[i], Success |-> FALSE,
                           Message |-> <<"failed to create temp dir:", ErrText>>,
                           PRURL |-> <<>>]
          /\ printed[i] = <<"failed:", "failed to create temp dir:", ErrText>>
          /\ failCount = Cardinality({j \in 1..Len(results) : ~results[j].Success})
          /\ failCount >= 1
          /\ i \notin tempDirs
          /\ ListedOnce(i) => remote[repos[i]] = remote0[repos[i]]
          /\ i < Len(repos) =>
                /\ idx > i
                /\ (pc = "MkdirTemp" /\ idx = i + 1) \/ Called(i + 1, "MkdirTemp")
          /\ LoopDone => Len(results) = Len(repos) /\ runErr.n = failCount

\* no directory for the first repository; the second one was merged
TempDirFailureWitness ==
    /\ LoopDone
    /\ Len(results) = 2
    /\ results[1].Message = <<"failed to create temp dir:", ErrText>>
    /\ results[2].Message = <<"merged">>
    /\ failCount = 1
    /\ successCount = 1

====
